---- MODULE Spec2Model ----
(***************************************************************************)
(* Model of the type phases of the poke compiler (src/src/pkl-typify.c).   *)
(*                                                                         *)
(* A handler of the phase is an operator from the attributes it reads      *)
(* (the types of the operands, the formals and actuals of a call, ...) to  *)
(* a record of what it leaves behind: the type attribute of the node, the  *)
(* number of errors it adds to the payload, the restart flag and the way   *)
(* it ends.  The actions apply the handlers to nodes whose attributes are  *)
(* drawn from bounded sets, and keep the payload of the phase.             *)
(***************************************************************************)
EXTENDS Integers, Sequences, FiniteSets, TLC

VARIABLES
  errors,   \* payload->errors
  errors0,  \* payload->errors as the handler that just ran was entered
  node,     \* PKL_PASS_NODE, as the handler that just ran has left it
  outcome,  \* how the handler ended: "done", "error", "break", "undefined", "none"
  restart,  \* PKL_PASS_RESTART
  diag,     \* the diagnostic the handler emitted: its text, its argument number
  actuals,  \* PKL_AST_FUNCALL_ARGS as the funcall handler was entered
  entered,  \* PKL_PASS_NODE as the handler that just ran was entered
  prog,     \* the nodes of the program the phase walks, in traversal order
  pc,       \* number of nodes of prog already visited
  ast       \* the visited nodes with their attributes

vars == <<errors, errors0, node, outcome, restart, diag, actuals, entered, prog,
          pc, ast>>

-----------------------------------------------------------------------------
(* Bounds of the model.                                                    *)

MaxErrors == 2
MaxNodes == 2
MaxArgs == 2
MaxElems == 3

-----------------------------------------------------------------------------
(* Type nodes.  Every type is a record of the same shape; the fields a    *)
(* kind does not have hold 0 or <<>>.  For an offset type, size and       *)
(* signed are those of its base type and unit is the value of its unit.   *)

MkType(c, sz, sg, u, el) ==
  [code |-> c, size |-> sz, signed |-> sg, unit |-> u, elems |-> el]

NoType == MkType("null", 0, 0, 0, <<>>)

pkl_ast_make_integral_type(size, signed) == MkType("integral", size, signed, 0, <<>>)

pkl_ast_make_string_type == MkType("string", 0, 0, 0, <<>>)

pkl_ast_make_offset_type(base_type, unit) ==
  MkType("offset", base_type.size, base_type.signed, unit, <<>>)

pkl_ast_make_struct_type(struct_elem_types) ==
  MkType("struct", 0, 0, 0, struct_elem_types)

PKL_AST_TYPE_O_BASE_TYPE(t) == pkl_ast_make_integral_type(t.size, t.signed)

AnyType == MkType("any", 0, 0, 0, <<>>)
VoidType == MkType("void", 0, 0, 0, <<>>)
FunctionType == MkType("function", 0, 0, 0, <<>>)
ArrayType == MkType("array", 32, 1, 0, <<>>)
StructType == pkl_ast_make_struct_type(<<>>)

\* Structural equality of two types.
pkl_ast_type_equal(a, b) == a = b

\* The widths, base types and units the operand types are drawn from.
IntSizes == {1, 8, 32, 33, 64}
IntegralTypes == {pkl_ast_make_integral_type(s, sg) : s \in IntSizes, sg \in {0, 1}}
OffsetBases == {pkl_ast_make_integral_type(8, 1),
                pkl_ast_make_integral_type(32, 0),
                pkl_ast_make_integral_type(64, 1)}
Units == {1, 8, 16}
OffsetTypes == {pkl_ast_make_offset_type(b, u) : b \in OffsetBases, u \in Units}
OtherTypes == {pkl_ast_make_string_type, AnyType, VoidType, FunctionType,
               ArrayType, StructType}
Types == IntegralTypes \cup OffsetTypes \cup OtherTypes

-----------------------------------------------------------------------------
(* What a handler leaves behind.                                           *)

\* The handler reached its end, or PKL_PASS_DONE, having set the type.
PKL_PASS_DONE(type, rs) ==
  [type |-> type, outcome |-> "done", nerr |-> 0, restart |-> rs, msg |-> ""]

\* PKL_PASS_ERROR: the handler is left at once, here after the diagnostic msg
\* and nerr increments of payload->errors, with the type attribute unwritten.
PKL_PASS_ERROR(msg, nerr) ==
  [type |-> NoType, outcome |-> "error", nerr |-> nerr, restart |-> 0, msg |-> msg]

MAX(A, B) == IF A > B THEN A ELSE B

LogAnd(a, b) == IF a # 0 /\ b # 0 THEN 1 ELSE 0

-----------------------------------------------------------------------------
(* ISA and casts.                                                          *)

\* An integer literal of the given value and type.
pkl_ast_make_integer(value, type) ==
  [code |-> "integer", op |-> "", attr |-> "", operands |-> <<>>, type |-> type,
   parent |-> "", elems |-> <<>>, fargs |-> <<>>, rtype |-> NoType, value |-> value,
   nelem |-> <<>>, complete |-> "unknown"]

pkl_typify1_ps_isa_kept(isa, isa_exp_type, isa_type) ==
  LET bool_type == pkl_ast_make_integral_type(32, 1)
  IN IF isa_type.code = "any"
     THEN PKL_PASS_DONE(bool_type, 1) @@ [node |-> pkl_ast_make_integer(1, bool_type)]
     ELSE PKL_PASS_DONE(bool_type, 0) @@ [node |-> [isa EXCEPT !.type = bool_type]]

\* isa is the node, isa_exp_type the type of its expression and isa_type its
\* type operand.  The field node of the result is PKL_PASS_NODE as the
\* handler leaves it.
pkl_typify1_ps_isa(isa, isa_exp_type, isa_type) ==
  LET bool_type == pkl_ast_make_integral_type(32, 1)
  IN IF isa_type.code = "any"
     THEN PKL_PASS_DONE(bool_type, 1) @@ [node |-> pkl_ast_make_integer(1, bool_type)]
     ELSE IF isa_exp_type.code # "any"
     THEN PKL_PASS_DONE(bool_type, 1) @@
          [node |-> pkl_ast_make_integer(
                      IF pkl_ast_type_equal(isa_type, isa_exp_type) THEN 1 ELSE 0,
                      bool_type)]
     ELSE PKL_PASS_DONE(bool_type, 0) @@ [node |-> [isa EXCEPT !.type = bool_type]]

pkl_typify1_ps_cast_lax(type, exp_type) ==
  IF type.code = "any"
  THEN PKL_PASS_ERROR("casting a value to `any' is not allowed", 1)
  ELSE IF type.code = "function"
  THEN PKL_PASS_ERROR("casting a value to a function type is not allowed", 1)
  ELSE IF exp_type.code = "function"
  THEN PKL_PASS_ERROR("casting a function to any other type is not allowed", 1)
  ELSE IF type.code = "string" /\ (exp_type.code # "integral" \/ exp_type.size # 8)
  THEN PKL_PASS_ERROR("invalid cast to string.  Expected a uint<8>.", 1)
  ELSE PKL_PASS_DONE(type, 1)

\* type is the target of the cast, exp_type the type of the casted expression.
pkl_typify1_ps_cast(type, exp_type) ==
  IF type.code = "any"
  THEN PKL_PASS_ERROR("casting a value to `any' is not allowed", 1)
  ELSE IF type.code = "function"
  THEN PKL_PASS_ERROR("casting a value to a function type is not allowed", 1)
  ELSE IF exp_type.code = "function"
  THEN PKL_PASS_ERROR("casting a function to any other type is not allowed", 1)
  ELSE IF type.code = "string"
          /\ (exp_type.code # "integral" \/ exp_type.signed # 0 \/ exp_type.size # 8)
  THEN PKL_PASS_ERROR("invalid cast to string.  Expected a uint<8>.", 1)
  ELSE PKL_PASS_DONE(type, 1)

-----------------------------------------------------------------------------
(* SIZEOF.                                                                 *)

\* The unit of an offset in bits.
PKL_AST_OFFSET_UNIT_BITS == 1

pkl_typify1_ps_op_sizeof_bytes ==
  PKL_PASS_DONE(pkl_ast_make_offset_type(pkl_ast_make_integral_type(64, 0), 8), 0)

pkl_typify1_ps_op_sizeof ==
  PKL_PASS_DONE(pkl_ast_make_offset_type(pkl_ast_make_integral_type(64, 0),
                                         PKL_AST_OFFSET_UNIT_BITS), 0)

-----------------------------------------------------------------------------
(* Binary operators: the handlers TYPIFY_BIN generates.                    *)

CASE_INTEGRAL_shift_promoted(t1, t2) ==
  pkl_ast_make_integral_type(IF t1.size > t2.size THEN t1.size ELSE t2.size,
                             IF t1.signed # 0 /\ t2.signed # 0 THEN 1 ELSE 0)

\* CASE_INTEGRAL as defined for SL and SR.
CASE_INTEGRAL_shift(t1, t2) == pkl_ast_make_integral_type(t1.size, t1.signed)

CASE_INTEGRAL_first(t1, t2) == pkl_ast_make_integral_type(t1.size, t1.signed)

\* CASE_INTEGRAL as defined for the other operators.
CASE_INTEGRAL(t1, t2) ==
  pkl_ast_make_integral_type(MAX(t1.size, t2.size), LogAnd(t1.signed, t2.signed))

CASE_OFFSET_divmod_offset(OP, t1, t2) ==
  IF OP = "div"
  THEN pkl_ast_make_offset_type(
         pkl_ast_make_integral_type(IF t1.size > t2.size THEN t1.size ELSE t2.size,
                                    IF t1.signed # 0 /\ t2.signed # 0 THEN 1 ELSE 0),
         t1.unit)
  ELSE pkl_ast_make_offset_type(pkl_ast_make_integral_type(t1.size, t1.signed), t2.unit)

CASE_OFFSET_divmod_promoted(OP, t1, t2) ==
  IF OP = "div"
  THEN pkl_ast_make_integral_type(IF t1.size > t2.size THEN t1.size ELSE t2.size,
                                  IF t1.signed # 0 /\ t2.signed # 0 THEN 1 ELSE 0)
  ELSE pkl_ast_make_offset_type(
         pkl_ast_make_integral_type(IF t1.size > t2.size THEN t1.size ELSE t2.size,
                                    IF t1.signed # 0 /\ t2.signed # 0 THEN 1 ELSE 0),
         t2.unit)

\* CASE_OFFSET as defined for DIV and MOD.
CASE_OFFSET_divmod(OP, t1, t2) ==
  IF OP = "div"
  THEN pkl_ast_make_integral_type(MAX(t1.size, t2.size), LogAnd(t1.signed, t2.signed))
  ELSE pkl_ast_make_offset_type(PKL_AST_TYPE_O_BASE_TYPE(t1), t2.unit)

CASE_OFFSET_unit_of_first(t1, t2) ==
  pkl_ast_make_offset_type(
    pkl_ast_make_integral_type(IF t1.size > t2.size THEN t1.size ELSE t2.size,
                               IF t1.signed # 0 /\ t2.signed # 0 THEN 1 ELSE 0),
    t1.unit)

\* CASE_OFFSET as defined for SUB, and still defined when ADD is generated.
CASE_OFFSET(t1, t2) ==
  pkl_ast_make_offset_type(
    pkl_ast_make_integral_type(MAX(t1.size, t2.size), LogAnd(t1.signed, t2.signed)),
    1)

\* CASE_STR as defined for ADD and MUL.
CASE_STR == pkl_ast_make_string_type

\* The definitions of CASE_STR and CASE_OFFSET in force where TYPIFY_BIN (OP)
\* is expanded: empty for the operators generated before they are defined.
HasCaseStr(OP) == OP \in {"add"}
HasCaseOffset(OP) == OP \in {"div", "mod", "sub", "add"}

BinOps == {"sl", "sr", "ior", "xor", "band", "div", "mod", "sub", "add"}

TYPIFY_BIN(OP, t1, t2) ==
  IF t1.code # t2.code THEN PKL_PASS_ERROR("invalid operands in expression", 1)
  ELSE IF t1.code = "string" /\ HasCaseStr(OP) THEN PKL_PASS_DONE(CASE_STR, 0)
  ELSE IF t1.code = "offset" /\ HasCaseOffset(OP)
       THEN PKL_PASS_DONE(IF OP \in {"div", "mod"} THEN CASE_OFFSET_divmod(OP, t1, t2)
                          ELSE CASE_OFFSET(t1, t2), 0)
  ELSE IF t1.code = "integral"
       THEN PKL_PASS_DONE(IF OP \in {"sl", "sr"} THEN CASE_INTEGRAL_shift(t1, t2)
                          ELSE CASE_INTEGRAL(t1, t2), 0)
  ELSE PKL_PASS_ERROR("invalid operands in expression", 1)

pkl_typify1_ps_mul_bits(t1, t2) ==
  IF t1.code = "offset" \/ t2.code = "offset"
  THEN IF (t1.code = "integral" /\ t2.code = "offset")
          \/ (t1.code = "offset" /\ t2.code = "integral")
       THEN PKL_PASS_DONE(pkl_ast_make_offset_type(
                            pkl_ast_make_integral_type(MAX(t1.size, t2.size),
                                                       LogAnd(t1.signed, t2.signed)),
                            1), 0)
       ELSE PKL_PASS_ERROR("invalid operands in expression", 1)
  ELSE IF t1.code # t2.code THEN PKL_PASS_ERROR("invalid operands in expression", 1)
  ELSE IF t1.code = "string" THEN PKL_PASS_DONE(CASE_STR, 0)
  ELSE IF t1.code = "integral" THEN PKL_PASS_DONE(CASE_INTEGRAL(t1, t2), 0)
  ELSE PKL_PASS_ERROR("invalid operands in expression", 1)

pkl_typify1_ps_mul_swapped(t1, t2) ==
  IF t1.code = "offset" \/ t2.code = "offset"
  THEN IF t1.code = "offset" /\ t2.code = "integral"
       THEN PKL_PASS_DONE(pkl_ast_make_offset_type(
                            pkl_ast_make_integral_type(MAX(t1.size, t2.size),
                                                       LogAnd(t1.signed, t2.signed)),
                            t1.unit), 0)
       ELSE PKL_PASS_ERROR("invalid operands in expression", 1)
  ELSE IF t1.code # t2.code THEN PKL_PASS_ERROR("invalid operands in expression", 1)
  ELSE IF t1.code = "string" THEN PKL_PASS_DONE(CASE_STR, 0)
  ELSE IF t1.code = "integral" THEN PKL_PASS_DONE(CASE_INTEGRAL(t1, t2), 0)
  ELSE PKL_PASS_ERROR("invalid operands in expression", 1)

pkl_typify1_ps_mul(t1, t2) ==
  IF t1.code = "offset" \/ t2.code = "offset"
  THEN IF (t1.code = "integral" /\ t2.code = "offset")
          \/ (t1.code = "offset" /\ t2.code = "integral")
       THEN LET offset_type == IF t1.code = "offset" THEN t1 ELSE t2
                int_type == IF t1.code = "offset" THEN t2 ELSE t1
                res_base_type ==
                  pkl_ast_make_integral_type(MAX(offset_type.size, int_type.size),
                                             LogAnd(offset_type.signed, int_type.signed))
            IN PKL_PASS_DONE(pkl_ast_make_offset_type(res_base_type, offset_type.unit), 0)
       ELSE PKL_PASS_ERROR("invalid operands in expression", 1)
  ELSE IF t1.code # t2.code THEN PKL_PASS_ERROR("invalid operands in expression", 1)
  ELSE IF t1.code = "string" THEN PKL_PASS_DONE(CASE_STR, 0)
  ELSE IF t1.code = "integral" THEN PKL_PASS_DONE(CASE_INTEGRAL(t1, t2), 0)
  ELSE PKL_PASS_ERROR("invalid operands in expression", 1)

pkl_typify1_ps_op_bconc_sign2(t1, t2) ==
  IF t1.code # "integral" \/ t2.code # "integral"
  THEN PKL_PASS_ERROR("operator requires integral arguments", 1)
  ELSE IF t1.size + t2.size > 64
  THEN PKL_PASS_ERROR("the sum of the width o the operators should not exceed 64-bit", 1)
  ELSE PKL_PASS_DONE(pkl_ast_make_integral_type(t1.size + t2.size, t2.signed), 0)

pkl_typify1_ps_op_bconc_unchecked(t1, t2) ==
  IF t1.code # "integral" \/ t2.code # "integral"
  THEN PKL_PASS_ERROR("operator requires integral arguments", 1)
  ELSE PKL_PASS_DONE(pkl_ast_make_integral_type(t1.size + t2.size, t1.signed), 0)

pkl_typify1_ps_op_bconc(t1, t2) ==
  IF t1.code # "integral" \/ t2.code # "integral"
  THEN PKL_PASS_ERROR("operator requires integral arguments", 1)
  ELSE IF t1.size + t2.size > 64
  THEN PKL_PASS_ERROR("the sum of the width o the operators should not exceed 64-bit", 1)
  ELSE PKL_PASS_DONE(pkl_ast_make_integral_type(t1.size + t2.size, t1.signed), 0)

\* The handler pkl_phase_typify1 holds for the operator OP.
ExpHandler(OP, t1, t2) ==
  IF OP = "mul" THEN pkl_typify1_ps_mul(t1, t2)
  ELSE IF OP = "bconc" THEN pkl_typify1_ps_op_bconc(t1, t2)
  ELSE TYPIFY_BIN(OP, t1, t2)

-----------------------------------------------------------------------------
(* The return statement.                                                   *)

\* The promotions the handlers let through: anything to any, an integral to
\* an integral, an offset to an offset.
Promotable(expected_type, found_type) ==
  \/ expected_type.code = "any"
  \/ expected_type.code = "integral" /\ found_type.code = "integral"
  \/ expected_type.code = "offset" /\ found_type.code = "offset"

\* exp is <<>> for a return without an expression, and else holds the type
\* of the expression; expected_type is PKL_AST_FUNC_RET_TYPE (function).
pkl_typify1_ps_return_stmt(exp, expected_type) ==
  IF exp = <<>> THEN PKL_PASS_DONE(NoType, 0)
  ELSE IF /\ expected_type.code # "void"
          /\ ~pkl_ast_type_equal(exp[1], expected_type)
          /\ ~Promotable(expected_type, exp[1])
  THEN PKL_PASS_ERROR("returning an expression of the wrong type", 1)
  ELSE PKL_PASS_DONE(NoType, 0)

-----------------------------------------------------------------------------
(* Integral types in the source.                                           *)

\* type is the node of an integral type as the parser made it; the handler
\* leaves the node as it is.
pkl_typify1_ps_type_integral(type) ==
  IF type.type.size < 1 \/ type.type.size > 64
  THEN [node |-> type]
         @@ PKL_PASS_ERROR("the width of an integral type should be in the [1,64] range", 1)
  ELSE PKL_PASS_DONE(type.type, 0)

\* The widths the parser hands over in integral types.
TypeSizes == {0, 1, 64, 65}

-----------------------------------------------------------------------------
(* The assignment statement.                                               *)

\* The handler with the test on function l-values that the source leaves
\* out with #if 0.
pkl_typify1_ps_ass_stmt_no_function(lvalue_type, exp_type) ==
  IF /\ lvalue_type.code # "any"
     /\ ~pkl_ast_type_equal(lvalue_type, exp_type)
     /\ ~Promotable(lvalue_type, exp_type)
  THEN PKL_PASS_ERROR("r-value in assignment has the wrong type", 1)
  ELSE IF lvalue_type.code = "function"
  THEN PKL_PASS_ERROR("l-value in assignment cannot be a function", 1)
  ELSE PKL_PASS_DONE(NoType, 0)

\* lvalue_type and exp_type are the types of the two sides.
pkl_typify1_ps_ass_stmt(lvalue_type, exp_type) ==
  IF /\ lvalue_type.code # "any"
     /\ ~pkl_ast_type_equal(lvalue_type, exp_type)
     /\ ~Promotable(lvalue_type, exp_type)
  THEN PKL_PASS_ERROR("r-value in assignment has the wrong type", 1)
  ELSE PKL_PASS_DONE(NoType, 0)

-----------------------------------------------------------------------------
(* Struct literals.                                                        *)

\* Chain ast2 at the end of the chain ast1.
pkl_ast_chainon(ast1, ast2) == ast1 \o ast2

RECURSIVE pkl_ast_reverse(_)
pkl_ast_reverse(chain) ==
  IF chain = <<>> THEN <<>> ELSE Append(pkl_ast_reverse(Tail(chain)), Head(chain))

pkl_ast_make_struct_elem_type(name, type) == [name |-> name, type |-> type]

\* The chain the loop over PKL_AST_STRUCT_ELEMS (node) builds.
RECURSIVE StructElemTypes(_)
StructElemTypes(elems) ==
  IF elems = <<>> THEN <<>>
  ELSE pkl_ast_chainon(
         <<pkl_ast_make_struct_elem_type(Head(elems).name, Head(elems).type)>>,
         StructElemTypes(Tail(elems)))

\* elems holds the name and the type of each STRUCT_ELEM of the literal.
pkl_typify1_ps_struct(elems) ==
  LET struct_elem_types == pkl_ast_reverse(StructElemTypes(elems))
  IN PKL_PASS_DONE(pkl_ast_make_struct_type(struct_elem_types), 1)

\* The name and type a struct element may have; "" is an element without name.
ElemNames == {"", "x", "y"}
ElemTypes == {pkl_ast_make_integral_type(32, 1), pkl_ast_make_integral_type(8, 0),
              pkl_ast_make_string_type}
StructElem == [name : ElemNames, type : ElemTypes]

RECURSIVE SeqsUpTo(_, _)
SeqsUpTo(S, n) ==
  IF n = 0 THEN {<<>>}
  ELSE LET shorter == SeqsUpTo(S, n - 1)
       IN shorter \cup {Append(q, x) : q \in {r \in shorter : Len(r) = n - 1}, x \in S}

-----------------------------------------------------------------------------
(* Attribute expressions.                                                  *)

\* offset<uint<64>,1>
OffsetBits ==
  pkl_ast_make_offset_type(pkl_ast_make_integral_type(64, 0), 1)

\* The attributes the handler knows, and "none" for any other attribute code.
Attrs == {"size", "signed", "magnitude", "unit", "length", "alignment",
          "offset", "mapped", "none"}

invalid_attribute ==
  PKL_PASS_ERROR("attribute is not defined for values of this type", 1)

pkl_typify1_ps_attr_length(attr, operand_type) ==
  LET code == operand_type.code
  IN CASE attr = "size" ->
            IF code \in {"integral", "string", "array", "struct", "offset"}
            THEN PKL_PASS_DONE(OffsetBits, 0) ELSE invalid_attribute
       [] attr = "signed" ->
            IF code = "integral"
            THEN PKL_PASS_DONE(pkl_ast_make_integral_type(32, 1), 0)
            ELSE invalid_attribute
       [] attr \in {"magnitude", "unit"} ->
            IF code = "offset"
            THEN PKL_PASS_DONE(pkl_ast_make_integral_type(64, 0), 0)
            ELSE invalid_attribute
       [] attr = "length" ->
            IF code \in {"array", "struct"}
            THEN PKL_PASS_DONE(pkl_ast_make_integral_type(64, 0), 0)
            ELSE invalid_attribute
       [] attr = "alignment" ->
            IF code = "struct"
            THEN PKL_PASS_DONE(pkl_ast_make_integral_type(64, 0), 0)
            ELSE invalid_attribute
       [] attr = "offset" ->
            IF code \in {"array", "struct"}
            THEN PKL_PASS_DONE(OffsetBits, 0) ELSE invalid_attribute
       [] attr = "mapped" -> PKL_PASS_DONE(pkl_ast_make_integral_type(32, 1), 0)
       [] OTHER ->
            \* pkl_ice, then PKL_PASS_ERROR: payload->errors is not touched.
            PKL_PASS_ERROR("unhandled attribute expression code in typify1", 0)

pkl_typify1_ps_attr(attr, operand_type) ==
  LET code == operand_type.code
  IN CASE attr = "size" ->
            IF code \in {"integral", "string", "array", "struct", "offset"}
            THEN PKL_PASS_DONE(OffsetBits, 0) ELSE invalid_attribute
       [] attr = "signed" ->
            IF code = "integral"
            THEN PKL_PASS_DONE(pkl_ast_make_integral_type(32, 1), 0)
            ELSE invalid_attribute
       [] attr \in {"magnitude", "unit"} ->
            IF code = "offset"
            THEN PKL_PASS_DONE(pkl_ast_make_integral_type(64, 0), 0)
            ELSE invalid_attribute
       [] attr = "length" ->
            IF code \in {"array", "struct", "string"}
            THEN PKL_PASS_DONE(pkl_ast_make_integral_type(64, 0), 0)
            ELSE invalid_attribute
       [] attr = "alignment" ->
            IF code = "struct"
            THEN PKL_PASS_DONE(pkl_ast_make_integral_type(64, 0), 0)
            ELSE invalid_attribute
       [] attr = "offset" ->
            IF code \in {"array", "struct"}
            THEN PKL_PASS_DONE(OffsetBits, 0) ELSE invalid_attribute
       [] attr = "mapped" -> PKL_PASS_DONE(pkl_ast_make_integral_type(32, 1), 0)
       [] OTHER ->
            \* pkl_ice, then PKL_PASS_ERROR: payload->errors is not touched.
            PKL_PASS_ERROR("unhandled attribute expression code in typify1", 0)

-----------------------------------------------------------------------------
(* Function calls.                                                         *)

\* An argument of a function type, and an actual argument of a funcall.
\* The name "" stands for no name.
FuncTypeArg(name, type, optional, vararg) ==
  [name |-> name, type |-> type, optional |-> optional, vararg |-> vararg]

pkl_ast_make_funcall_arg(exp_type, name) ==
  [name |-> name, type |-> exp_type, first_vararg |-> 0, refcount |-> 1]

\* A reference more to the node at the head of chain.
ASTREF(chain) ==
  IF chain = <<>> THEN <<>> ELSE [chain EXCEPT ![1].refcount = @ + 1]

Min(S) == CHOOSE x \in S : \A y \in S : x <= y

MandatoryArgs_all(fargs) == Len(fargs)

\* The number of formals before the first optional or vararg one.
MandatoryArgs(fargs) ==
  LET stop == {i \in 1..Len(fargs) : fargs[i].optional = 1 \/ fargs[i].vararg = 1}
  IN IF stop = {} THEN Len(fargs) ELSE Min(stop) - 1

\* The loop that annotates the first vararg: the actual aligned with the
\* vararg formal gets its flag, and narg counts the pairs walked.
AlignedPairs(fargs, args) == IF Len(fargs) < Len(args) THEN Len(fargs) ELSE Len(args)

HasVararg(fargs, args) ==
  \E i \in 1..AlignedPairs(fargs, args) : fargs[i].vararg = 1

AnnotateFirstVararg(fargs, args) ==
  [i \in 1..Len(args) |->
     IF i <= Len(fargs) /\ fargs[i].vararg = 1
     THEN [args[i] EXCEPT !.first_vararg = 1] ELSE args[i]]

\* The position of the first actual named name, or 0.
FindActual(args, name) ==
  LET hits == {i \in 1..Len(args) : args[i].name = name}
  IN IF hits = {} THEN 0 ELSE Min(hits)

\* The first loop of the named-argument block: the first actual, in order,
\* that meets a formal without name or that no formal is named after.
NamedCheck(fargs, args) ==
  LET unnamed(i) ==
        \* walking the formals for actual i meets one without name first
        \E j \in 1..Len(fargs) :
          /\ fargs[j].name = ""
          /\ \A k \in 1..(j - 1) : fargs[k].name # args[i].name
      known(i) == \E j \in 1..Len(fargs) : fargs[j].name = args[i].name
      bad == {i \in 1..Len(args) : unnamed(i) \/ ~known(i)}
  IN IF bad = {} THEN ""
     ELSE IF unnamed(Min(bad)) THEN "function doesn't take named arguments"
     ELSE "function doesn't take a `%s' argument"

\* The second loop walks the formals in order and chains a copy of the actual
\* named after each; a formal without actual is skipped when it is optional
\* or vararg.
Reorder_call_order(fargs, args) ==
  [i \in 1..Len(args) |-> pkl_ast_make_funcall_arg(args[i].type, args[i].name)]

Reorder_reversed(fargs, args) ==
  [i \in 1..Len(args) |->
     pkl_ast_make_funcall_arg(args[Len(args) + 1 - i].type, args[Len(args) + 1 - i].name)]

RECURSIVE Reorder(_, _)
Reorder(fargs, args) ==
  IF fargs = <<>> THEN <<>>
  ELSE LET aa == FindActual(args, Head(fargs).name)
       IN IF aa = 0 THEN Reorder(Tail(fargs), args)
          ELSE pkl_ast_chainon(
                 <<pkl_ast_make_funcall_arg(args[aa].type, args[aa].name)>>,
                 Reorder(Tail(fargs), args))

\* The error of the second loop, or "": the first formal that has no name
\* while there are actuals to compare it with, or that is required and has
\* no actual.
ReorderCheck(fargs, args) ==
  LET unnamed(j) == args # <<>> /\ fargs[j].name = ""
      missing(j) == /\ FindActual(args, fargs[j].name) = 0
                    /\ fargs[j].optional = 0 /\ fargs[j].vararg = 0
      bad == {j \in 1..Len(fargs) : unnamed(j) \/ missing(j)}
  IN IF bad = {} THEN ""
     ELSE IF unnamed(Min(bad)) THEN "function doesn't take named arguments"
     ELSE "required argument `%s' not specified in funcall"

\* The disposal of the old list reads the chain link of a node after free (aa)
\* whenever the reference count of the node is not above one.
ReadsFreedNode(args) == \E i \in 1..Len(args) : args[i].refcount <= 1

\* The positions whose types differ, with no promotion let through.
WrongType_equal_only(fargs, args) ==
  {i \in 1..AlignedPairs(fargs, args) :
     /\ fargs[i].vararg = 0
     /\ ~pkl_ast_type_equal(fargs[i].type, args[i].type)}

\* The positions, among the aligned pairs, whose actual has the wrong type.
WrongType(fargs, args) ==
  {i \in 1..AlignedPairs(fargs, args) :
     /\ fargs[i].vararg = 0
     /\ ~pkl_ast_type_equal(fargs[i].type, args[i].type)
     /\ ~Promotable(fargs[i].type, args[i].type)}

\* The parents for which a void funcall is refused.
ValueParents ==
  {"exp", "cond_exp", "array_initializer", "indexer", "struct_elem", "offset",
   "cast", "map", "funcall", "funcall_arg", "decl"}

FuncallResult(type, oc, nerr, msg, args, argno, uaf) ==
  [type |-> type, outcome |-> oc, nerr |-> nerr, restart |-> 0, msg |-> msg,
   args |-> args, argno |-> argno, uaf |-> uaf]

FuncallError(msg, args, uaf) == FuncallResult(NoType, "error", 1, msg, args, 0, uaf)

\* function_type is the type of the callee, fargs and rtype the arguments and
\* the return type of a function type, args the actuals, parent the code of
\* PKL_PASS_PARENT.
pkl_typify1_ps_funcall(function_type, fargs, rtype, args, parent) ==
  IF function_type.code # "function"
  THEN FuncallError("variable is not a function", args, FALSE)
  ELSE IF Len(args) < MandatoryArgs(fargs)
  THEN FuncallError("too few arguments passed to function", args, FALSE)
  ELSE
  LET annotated == AnnotateFirstVararg(fargs, args)
      named == annotated = <<>> \/ annotated[1].name # ""
      ordered == Reorder(fargs, annotated)
      installed == IF named THEN ASTREF(ordered) ELSE annotated
      uaf == named /\ ReadsFreedNode(annotated)
      \* narg is reset by the reordering loop, and else left by the loop above
      narg == IF named THEN 0 ELSE AlignedPairs(fargs, args)
      wrong == WrongType(fargs, installed)
  IN IF ~HasVararg(fargs, args) /\ Len(args) > Len(fargs)
     THEN FuncallError("too many arguments passed to function", annotated, FALSE)
     ELSE IF named /\ NamedCheck(fargs, annotated) # ""
     THEN FuncallError(NamedCheck(fargs, annotated), annotated, FALSE)
     ELSE IF named /\ ReorderCheck(fargs, annotated) # ""
     THEN FuncallError(ReorderCheck(fargs, annotated), annotated, FALSE)
     ELSE IF wrong # {}
     THEN FuncallResult(NoType, "error", 1, "function argument %d has the wrong type",
                        installed, narg + Min(wrong), uaf)
     ELSE IF rtype.code = "void" /\ parent \in ValueParents
     THEN FuncallResult(rtype, "error", 1, "function doesn't return a value",
                        installed, 0, uaf)
     ELSE FuncallResult(rtype, "done", 0, "", installed, 0, uaf)

\* The function types and the calls the handler is applied to.  Formals are
\* named after their position, or have no names; optional and vararg formals
\* follow the mandatory ones and a vararg is last.
FormalNames == <<"a", "b", "c", "d">>
FormalTypes == {pkl_ast_make_integral_type(32, 1), pkl_ast_make_string_type, AnyType,
                pkl_ast_make_offset_type(pkl_ast_make_integral_type(32, 0), 8)}
ActualTypes == {pkl_ast_make_integral_type(8, 0), pkl_ast_make_string_type, AnyType,
                pkl_ast_make_offset_type(pkl_ast_make_integral_type(64, 1), 1)}
ActualNames == {FormalNames[i] : i \in 1..MaxArgs}

FormalKinds == {"mandatory", "optional", "vararg"}

KindRank(k) == CASE k = "mandatory" -> 0 [] k = "optional" -> 1 [] OTHER -> 2

WellOrderedKinds(ks) ==
  /\ \A i \in 1..(Len(ks) - 1) : KindRank(ks[i]) <= KindRank(ks[i + 1])
  /\ \A i \in 1..(Len(ks) - 1) : ks[i] # "vararg"

FuncTypeArgs ==
  {[i \in 1..Len(ks) |->
      FuncTypeArg(IF withnames THEN FormalNames[i] ELSE "", ts[i],
                  IF ks[i] = "optional" THEN 1 ELSE 0,
                  IF ks[i] = "vararg" THEN 1 ELSE 0)] :
     withnames \in BOOLEAN,
     <<ks, ts>> \in
       {p \in SeqsUpTo(FormalKinds, MaxArgs) \X SeqsUpTo(FormalTypes, MaxArgs) :
          Len(p[1]) = Len(p[2]) /\ WellOrderedKinds(p[1])}}

\* The actuals of a call all have a name, each a different one, or none has.
FuncallArgs ==
  {[i \in 1..Len(ts) |-> pkl_ast_make_funcall_arg(ts[i], ns[i])] :
     <<ns, ts>> \in
       {p \in SeqsUpTo(ActualNames \cup {""}, MaxArgs) \X SeqsUpTo(ActualTypes, MaxArgs) :
          /\ Len(p[1]) = Len(p[2])
          /\ \/ \A i \in 1..Len(p[1]) : p[1][i] = ""
             \/ /\ \A i \in 1..Len(p[1]) : p[1][i] # ""
                /\ \A i, j \in 1..Len(p[1]) : p[1][i] = p[1][j] => i = j}}

\* The codes a parent of a funcall may have.
ParentCodes ==
  ValueParents \cup {"trimmer", "struct_ref", "isa", "exp_stmt"}

-----------------------------------------------------------------------------
(* Loop statements.                                                        *)

\* The element type of an array type, kept in its size and signed fields.
PKL_AST_TYPE_A_ETYPE(t) == pkl_ast_make_integral_type(t.size, t.signed)

\* What PKL_PASS_SUBPASS leaves of a child: its type attribute, and the
\* number of errors the handlers of its subtree added to the payload.
Subpass(type, nerr) == [type |-> type, nerr |-> nerr]

\* payload_errors is payload->errors as the handler is entered; container and
\* condition are <<>> or hold the result of their subpass; body_nerr is the
\* number of errors of the subpass on the body.  The type of the result is
\* the type given to the initial of the iterator.
pkl_typify1_pr_loop_stmt(payload_errors, container, iterator, condition, body_nerr) ==
  LET e1 == IF container # <<>> THEN container[1].nerr ELSE 0
      container_type == IF container # <<>> THEN container[1].type ELSE NoType
      container_elem_type ==
        IF ~iterator THEN NoType
        ELSE IF container_type.code = "array" THEN PKL_AST_TYPE_A_ETYPE(container_type)
        ELSE pkl_ast_make_integral_type(8, 0)
      e2 == e1 + (IF condition # <<>> THEN condition[1].nerr ELSE 0)
      e3 == e2 + body_nerr
      leave(oc, type, nerr, msg) ==
        [type |-> type, outcome |-> oc, nerr |-> nerr, restart |-> 0, msg |-> msg]
  IN IF container # <<>> /\ payload_errors + e1 > 0
     THEN leave("error", NoType, e1, "")
     ELSE IF iterator /\ container_type.code \notin {"array", "string"}
     THEN leave("error", NoType, e1 + 1, "expected array or string")
     ELSE IF condition # <<>> /\ payload_errors + e2 > 0
     THEN leave("error", container_elem_type, e2, "")
     ELSE IF condition # <<>> /\ condition[1].type # pkl_ast_make_integral_type(32, 1)
     THEN leave("error", container_elem_type, e2 + 1, "expected boolean expression")
     ELSE IF payload_errors + e3 > 0
     THEN leave("error", container_elem_type, e3, "")
     ELSE leave("break", container_elem_type, e3, "")

\* The results of a subpass: a typed child, or an untyped one with an error.
ContainerTypes == {ArrayType, pkl_ast_make_string_type, pkl_ast_make_integral_type(32, 1)}
ConditionTypes == {pkl_ast_make_integral_type(32, 1), pkl_ast_make_integral_type(8, 0),
                   pkl_ast_make_string_type}

Subpasses(types) == {Subpass(t, 0) : t \in types} \cup {Subpass(NoType, 1)}

-----------------------------------------------------------------------------
(* Nodes.  A node is a record of one shape; a kind of node uses the       *)
(* fields it has and leaves the others at their defaults.                  *)

Node(c) ==
  [code |-> c,          \* PKL_AST_CODE
   op |-> "",           \* PKL_AST_EXP_CODE
   attr |-> "",         \* PKL_AST_EXP_ATTR
   operands |-> <<>>,   \* the types of the operands, already typified
   type |-> NoType,     \* PKL_AST_TYPE
   parent |-> "",       \* PKL_AST_CODE (PKL_PASS_PARENT)
   elems |-> <<>>,      \* struct elements, or the actuals of a funcall
   fargs |-> <<>>,      \* PKL_AST_TYPE_F_ARGS of the called function
   rtype |-> NoType,    \* the return type of the function concerned
   value |-> 0,         \* PKL_AST_INTEGER_VALUE
   nelem |-> <<>>,      \* PKL_AST_TYPE_A_NELEM of a type node: <<>> for NULL
   complete |-> "unknown"]  \* PKL_AST_TYPE_COMPLETE of a type node

\* No node is being handled: the driver is between two nodes.
NoNode == Node("none")

ExpNode(OP, operands) == [Node("exp") EXCEPT !.op = OP, !.operands = operands]

Diag(msg, argno) == [msg |-> msg, argno |-> argno]

NoDiag == Diag("", 0)

\* PKL_PASS_NODE after the handler result r on the node n: the node the
\* handler put in its place, or n with the type attribute the handler wrote.
After(n, r) == IF "node" \in DOMAIN r THEN r.node ELSE [n EXCEPT !.type = r.type]

\* The node and the payload after the handler result r on the node n.
Handled(n, r) ==
  /\ node' = After(n, r)
  /\ entered' = n
  /\ outcome' = r.outcome
  /\ restart' = r.restart
  /\ diag' = Diag(r.msg, 0)
  /\ actuals' = <<>>
  /\ errors0' = errors
  /\ errors' = errors + r.nerr

\* The handler the table of the phase holds for a node, applied to it.  A
\* node of a code without handler is left as it is.
pkl_phase_typify1(n) ==
  CASE n.code = "exp" /\ n.op = "attr" -> pkl_typify1_ps_attr(n.attr, n.operands[1])
    [] n.code = "exp" /\ n.op = "sizeof" -> pkl_typify1_ps_op_sizeof
    [] n.code = "exp" /\ n.op \notin {"attr", "sizeof"} ->
         ExpHandler(n.op, n.operands[1], n.operands[2])
    [] n.code = "struct" -> pkl_typify1_ps_struct(n.elems)
    [] n.code = "isa" -> pkl_typify1_ps_isa(n, n.operands[1], n.operands[2])
    [] n.code = "cast" -> pkl_typify1_ps_cast(n.operands[2], n.operands[1])
    [] n.code = "return_stmt" -> pkl_typify1_ps_return_stmt(n.operands, n.rtype)
    [] n.code = "type" /\ n.type.code = "integral" -> pkl_typify1_ps_type_integral(n)
    [] n.code = "funcall" ->
         LET r == pkl_typify1_ps_funcall(n.operands[1], n.fargs, n.rtype, n.elems,
                                         n.parent)
         IN [node |-> [n EXCEPT !.elems = r.args, !.type = r.type]] @@ r
    [] n.code = "ass_stmt" -> pkl_typify1_ps_ass_stmt(n.operands[1], n.operands[2])
    [] OTHER -> PKL_PASS_DONE(n.type, 0)

\* The driver is about to visit a node, and the model has room for the
\* errors its handler may add.
Ready == node = NoNode /\ errors < MaxErrors

-----------------------------------------------------------------------------
(* The phase as a stream of handler invocations.                           *)

Init ==
  /\ errors = 0
  /\ errors0 = 0
  /\ node = NoNode
  /\ outcome = "none"
  /\ restart = 0
  /\ diag = NoDiag
  /\ actuals = <<>>
  /\ entered = NoNode
  /\ prog = <<>>
  /\ pc = 0
  /\ ast = <<>>

\* A binary operator expression whose operands have the types t1 and t2.
BinaryExp ==
  /\ Ready
  /\ \E OP \in BinOps \cup {"mul", "bconc"}, t1 \in Types, t2 \in Types :
       Handled(ExpNode(OP, <<t1, t2>>), ExpHandler(OP, t1, t2))
  /\ UNCHANGED <<prog, pc, ast>>

\* An isa of an expression of type isa_exp_type and the type isa_type.
IsaExp ==
  /\ Ready
  /\ \E isa_exp_type \in Types, isa_type \in Types :
       LET n == [Node("isa") EXCEPT !.operands = <<isa_exp_type, isa_type>>]
       IN Handled(n, pkl_phase_typify1(n))
  /\ UNCHANGED <<prog, pc, ast>>

\* A cast of an expression of type exp_type to the type type.
CastExp ==
  /\ Ready
  /\ \E exp_type \in Types, type \in Types :
       LET n == [Node("cast") EXCEPT !.operands = <<exp_type, type>>]
       IN Handled(n, pkl_phase_typify1(n))
  /\ UNCHANGED <<prog, pc, ast>>

\* A return statement, with or without an expression, in a function whose
\* declared return type is expected_type.
ReturnStmt ==
  /\ Ready
  /\ \E exp \in {<<>>} \cup {<<t>> : t \in Types}, expected_type \in Types :
       Handled([Node("return_stmt") EXCEPT !.operands = exp, !.rtype = expected_type],
               pkl_typify1_ps_return_stmt(exp, expected_type))
  /\ UNCHANGED <<prog, pc, ast>>

\* An integral type written in the program.
TypeIntegral ==
  /\ Ready
  /\ \E size \in TypeSizes, signed \in {0, 1} :
       LET n == [Node("type") EXCEPT !.type = pkl_ast_make_integral_type(size, signed)]
       IN Handled(n, pkl_phase_typify1(n))
  /\ UNCHANGED <<prog, pc, ast>>

\* An assignment whose two sides have been typified.
AssStmt ==
  /\ Ready
  /\ \E lvalue_type \in Types, exp_type \in Types :
       Handled([Node("ass_stmt") EXCEPT !.operands = <<lvalue_type, exp_type>>],
               pkl_typify1_ps_ass_stmt(lvalue_type, exp_type))
  /\ UNCHANGED <<prog, pc, ast>>

\* A struct literal whose elements have been typified.
StructLiteral ==
  /\ Ready
  /\ \E elems \in SeqsUpTo(StructElem, MaxElems) :
       Handled([Node("struct") EXCEPT !.elems = elems], pkl_typify1_ps_struct(elems))
  /\ UNCHANGED <<prog, pc, ast>>

\* An attribute expression on an operand of type operand_type.
AttrExp ==
  /\ Ready
  /\ \E attr \in Attrs, operand_type \in Types :
       Handled([ExpNode("attr", <<operand_type>>) EXCEPT !.attr = attr],
               pkl_typify1_ps_attr(attr, operand_type))
  /\ UNCHANGED <<prog, pc, ast>>

\* A sizeof whose operand has the type operand_type.
SizeofExp ==
  /\ Ready
  /\ \E operand_type \in Types :
       LET n == ExpNode("sizeof", <<operand_type>>)
       IN Handled(n, pkl_phase_typify1(n))
  /\ UNCHANGED <<prog, pc, ast>>

\* A loop statement, with the results of the subpasses on its children.  An
\* iterator comes with a container.
LoopStmt ==
  /\ node = NoNode
  /\ \E container \in {<<>>} \cup {<<c>> : c \in Subpasses(ContainerTypes)},
        iterator \in BOOLEAN,
        condition \in {<<>>} \cup {<<c>> : c \in Subpasses(ConditionTypes)},
        body_nerr \in 0..1 :
       LET r == pkl_typify1_pr_loop_stmt(errors, container, iterator, condition,
                                         body_nerr)
       IN /\ iterator => container # <<>>
          /\ errors + r.nerr <= MaxErrors
          /\ Handled([Node("loop_stmt") EXCEPT
                        !.operands = <<container, condition>>,
                        !.attr = IF iterator THEN "iterator" ELSE ""], r)
  /\ UNCHANGED <<prog, pc, ast>>

\* A conditional expression: pkl_phase_typify1 holds no handler for it.
CondExp ==
  /\ Ready
  /\ \E cond \in IntegralTypes, t \in Types :
       LET n == [Node("cond_exp") EXCEPT !.operands = <<cond, t, t>>]
       IN Handled(n, pkl_phase_typify1(n))
  /\ UNCHANGED <<prog, pc, ast>>

\* A call of a callee of type function_type, under a parent of code parent.
\* A read of a freed node yields the link the node held, or anything else.
Funcall ==
  /\ Ready
  /\ \E function_type \in {FunctionType, pkl_ast_make_integral_type(32, 1)},
        fargs \in FuncTypeArgs, rtype \in {pkl_ast_make_integral_type(32, 1), VoidType},
        args \in FuncallArgs, parent \in ParentCodes, freed \in {"intact", "clobbered"} :
       /\ function_type.code # "function" => fargs = <<>> /\ rtype = VoidType
       /\ (function_type.code # "function" \/ rtype.code # "void") => parent = "exp_stmt"
       /\ LET r == pkl_typify1_ps_funcall(function_type, fargs, rtype, args, parent)
              n == [Node("funcall") EXCEPT !.operands = <<function_type>>,
                      !.fargs = fargs, !.rtype = rtype, !.parent = parent]
          IN /\ freed = "clobbered" => r.uaf
             /\ IF freed = "clobbered"
                THEN /\ node' = [n EXCEPT !.elems = args]
                     /\ outcome' = "undefined"
                     /\ diag' = NoDiag
                     /\ errors' = errors
                ELSE /\ node' = [n EXCEPT !.elems = r.args, !.type = r.type]
                     /\ outcome' = r.outcome
                     /\ diag' = Diag(r.msg, r.argno)
                     /\ errors' = errors + r.nerr
             /\ restart' = 0
             /\ errors0' = errors
             /\ actuals' = args
             /\ entered' = [n EXCEPT !.elems = args]
  /\ UNCHANGED <<prog, pc, ast>>

\* The driver leaves the node and goes on with the rest of the tree.
Advance ==
  /\ node # NoNode
  /\ node' = NoNode
  /\ outcome' = "none"
  /\ restart' = 0
  /\ diag' = NoDiag
  /\ actuals' = <<>>
  /\ entered' = NoNode
  /\ UNCHANGED <<errors, errors0, prog, pc, ast>>

Next ==
  \/ BinaryExp
  \/ IsaExp
  \/ CastExp
  \/ ReturnStmt
  \/ AssStmt
  \/ TypeIntegral
  \/ StructLiteral
  \/ AttrExp
  \/ SizeofExp
  \/ CondExp
  \/ LoopStmt
  \/ Advance

Spec == Init /\ [][Next]_vars

\* The handler of a loop statement, block by block.  pc is the block the
\* handler is about to run, 0 outside of the handler, and ast collects the
\* children of the loop as the blocks typify them.

LoopBlocks_body_first == <<"container", "iterator", "body", "condition">>

\* The blocks of pkl_typify1_pr_loop_stmt in the order of the source.
LoopBlocks == <<"container", "iterator", "condition", "body">>

LoopBlockResult(oc, nerr, msg, typified, type) ==
  [outcome |-> oc, nerr |-> nerr, msg |-> msg, typified |-> typified, type |-> type]

\* One block of the handler on the loop n, entered with payload_errors in
\* the payload.  The operands of n are the container, the condition and the
\* body, each <<>> or the result its subpass will have; the type of n is the
\* type given to the initial of the iterator.
LoopBlock(block, payload_errors, n) ==
  LET container == n.operands[1]
      condition == n.operands[2]
      body == n.operands[3]
      subpass(child, then) ==
        IF payload_errors + child[1].nerr > 0
        THEN LoopBlockResult("error", child[1].nerr, "", TRUE, n.type)
        ELSE then
      next(typified, type) == LoopBlockResult("next", 0, "", typified, type)
  IN CASE block = "container" ->
            IF container = <<>> THEN next(FALSE, n.type)
            ELSE subpass(container, next(TRUE, n.type))
       [] block = "iterator" ->
            IF n.attr # "iterator" THEN next(FALSE, n.type)
            ELSE IF container[1].type.code \notin {"array", "string"}
            THEN LoopBlockResult("error", 1, "expected array or string", FALSE, n.type)
            ELSE IF container[1].type.code = "array"
            THEN next(TRUE, PKL_AST_TYPE_A_ETYPE(container[1].type))
            ELSE next(TRUE, pkl_ast_make_integral_type(8, 0))
       [] block = "condition" ->
            IF condition = <<>> THEN next(FALSE, n.type)
            ELSE subpass(condition,
                         IF condition[1].type # pkl_ast_make_integral_type(32, 1)
                         THEN LoopBlockResult("error", 1, "expected boolean expression",
                                              TRUE, n.type)
                         ELSE next(TRUE, n.type))
       [] OTHER -> subpass(body, next(TRUE, n.type))

\* The driver enters the handler on a loop statement.
LoopEnter ==
  /\ Ready
  /\ pc = 0
  /\ \E container \in {<<>>} \cup {<<c>> : c \in Subpasses(ContainerTypes)},
        iterator \in BOOLEAN,
        condition \in {<<>>} \cup {<<c>> : c \in Subpasses(ConditionTypes)},
        body \in {<<Subpass(NoType, e)>> : e \in 0..1} :
       /\ iterator => container # <<>>
       /\ node' = [Node("loop_stmt") EXCEPT
                     !.operands = <<container, condition, body>>,
                     !.attr = IF iterator THEN "iterator" ELSE ""]
  /\ entered' = node'
  /\ errors0' = errors
  /\ pc' = 1
  /\ ast' = <<>>
  /\ outcome' = "none"
  /\ diag' = NoDiag
  /\ UNCHANGED <<errors, restart, actuals, prog>>

\* The handler runs its next block; it leaves with PKL_PASS_ERROR from the
\* block, or with PKL_PASS_BREAK after the last one.
LoopStep ==
  /\ node.code = "loop_stmt"
  /\ pc \in 1..Len(LoopBlocks)
  /\ LET b == LoopBlock(LoopBlocks[pc], errors, node)
     IN /\ errors' = errors + b.nerr
        /\ node' = [node EXCEPT !.type = b.type]
        /\ ast' = IF b.typified THEN Append(ast, LoopBlocks[pc]) ELSE ast
        /\ diag' = Diag(b.msg, 0)
        /\ outcome' = IF b.outcome = "error" THEN "error"
                      ELSE IF pc = Len(LoopBlocks) THEN "break"
                      ELSE "none"
        /\ pc' = IF b.outcome = "error" \/ pc = Len(LoopBlocks) THEN 0 ELSE pc + 1
  /\ UNCHANGED <<errors0, restart, actuals, entered, prog>>

\* The handler has left, and the driver goes on after the loop.
LoopLeave ==
  /\ node.code = "loop_stmt"
  /\ pc = 0
  /\ Advance

LoopNext ==
  \/ LoopEnter
  \/ LoopStep
  \/ LoopLeave

LoopSpec == Init /\ [][LoopNext]_vars

\* The second phase: completeness of the types written in the program.  A
\* type node has the type in its type field, the number of elements of an
\* array type in nelem, and the flag in complete.

\* type is a type node.  An array type is complete when its element type is
\* and the number of its elements is a constant; a struct type, when the
\* types of its fields are; integral and offset types are; others are not.
pkl_ast_type_is_complete(type) ==
  LET complete(t) == t.code \in {"integral", "offset"}
  IN IF type.type.code = "array"
     THEN IF type.nelem = <<"constant">> THEN "yes" ELSE "no"
     ELSE IF type.type.code = "struct"
     THEN IF \A i \in 1..Len(type.type.elems) : complete(type.type.elems[i].type)
          THEN "yes" ELSE "no"
     ELSE IF complete(type.type) THEN "yes" ELSE "no"

\* The handler with the test ahead of the assignment to the flag.
pkl_typify2_ps_type_check_first(type) ==
  IF /\ type.type.code = "array"
     /\ type.nelem # <<>>
     /\ type.parent = "func_type_arg"
  THEN [node |-> type]
         @@ PKL_PASS_ERROR("sized array types not allowed in this context", 1)
  ELSE [node |-> [type EXCEPT !.complete = pkl_ast_type_is_complete(type)]]
         @@ PKL_PASS_DONE(type.type, 0)

\* type is the type node, and type.parent the code of PKL_PASS_PARENT, "" for
\* none.
pkl_typify2_ps_type(type) ==
  LET flagged == [type EXCEPT !.complete = pkl_ast_type_is_complete(type)]
  IN IF /\ flagged.type.code = "array"
        /\ flagged.nelem # <<>>
        /\ flagged.parent # ""
        /\ flagged.parent = "func_type_arg"
     THEN [node |-> flagged]
            @@ PKL_PASS_ERROR("sized array types not allowed in this context", 1)
     ELSE [node |-> flagged] @@ PKL_PASS_DONE(flagged.type, 0)

\* The handler the table of the second phase holds for a node.
pkl_phase_typify2(n) ==
  CASE n.code = "type" /\ n.type.code \in {"array", "struct"} -> pkl_typify2_ps_type(n)
    [] OTHER -> PKL_PASS_DONE(n.type, 0)

\* The type nodes of a program: array types of integral elements, without
\* number of elements or with a constant or a variable one, struct types, and
\* integral types.
Typify2Types ==
  {[Node("type") EXCEPT !.type = MkType("array", t.size, t.signed, 0, <<>>),
                        !.nelem = ne] :
     t \in {pkl_ast_make_integral_type(32, 1), pkl_ast_make_integral_type(8, 0)},
     ne \in {<<>>, <<"constant">>, <<"variable">>}}
    \cup {[Node("type") EXCEPT !.type = pkl_ast_make_struct_type(ets)] :
            ets \in SeqsUpTo({pkl_ast_make_struct_elem_type("", t) :
                                t \in {pkl_ast_make_integral_type(32, 1),
                                       pkl_ast_make_string_type}}, 2)}
    \cup {[Node("type") EXCEPT !.type = pkl_ast_make_integral_type(32, 1)]}

\* The codes of the parents of a type node, "" for a node without parent.
Typify2Parents ==
  {"", "func_type_arg", "func_arg", "decl", "struct_elem_type", "type", "cast", "map"}

\* A type node of the program, visited by the second phase.
Typify2Type ==
  /\ Ready
  /\ \E t \in Typify2Types, parent \in Typify2Parents :
       LET n == [t EXCEPT !.parent = parent]
       IN Handled(n, pkl_phase_typify2(n))
  /\ UNCHANGED <<prog, pc, ast>>

Typify2Next ==
  \/ Typify2Type
  \/ Advance

Typify2Spec == Init /\ [][Typify2Next]_vars

\* The phase over a whole program: the nodes of prog are visited in order,
\* and ast collects them as their handlers leave them.
PhaseTypes == {pkl_ast_make_integral_type(32, 1), pkl_ast_make_string_type}

PhaseNodes ==
  {ExpNode(OP, <<t1, t2>>) : OP \in {"add", "sl"}, t1 \in PhaseTypes, t2 \in PhaseTypes}
    \cup {[ExpNode("attr", <<t>>) EXCEPT !.attr = a] :
            a \in {"size", "none"}, t \in {pkl_ast_make_integral_type(32, 1)}}
    \cup {[Node("cond_exp") EXCEPT !.operands = <<t, t, t>>] :
            t \in {pkl_ast_make_integral_type(32, 1)}}

PhaseInit ==
  /\ errors = 0
  /\ errors0 = 0
  /\ node = NoNode
  /\ outcome = "none"
  /\ restart = 0
  /\ diag = NoDiag
  /\ actuals = <<>>
  /\ entered = NoNode
  /\ prog \in SeqsUpTo(PhaseNodes, MaxNodes)
  /\ pc = 0
  /\ ast = <<>>

Visit ==
  /\ pc < Len(prog)
  /\ LET n == prog[pc + 1]
         r == pkl_phase_typify1(n)
     IN /\ Handled(n, r)
        /\ ast' = Append(ast, After(n, r))
  /\ pc' = pc + 1
  /\ UNCHANGED prog

PhaseNext == Visit

PhaseSpec == PhaseInit /\ [][PhaseNext]_vars

\* The phase run twice: over prog, and then, when that run counted no
\* error, over the nodes it left in ast.  pc counts the visits of both runs.

RerunFormals ==
  {<<FuncTypeArg("a", pkl_ast_make_integral_type(32, 1), 0, 0),
     FuncTypeArg("b", pkl_ast_make_integral_type(8, 0), 0, 0)>>,
   <<FuncTypeArg("a", AnyType, 0, 0),
     FuncTypeArg("b", pkl_ast_make_string_type, 1, 0)>>}

RerunActuals ==
  {args \in FuncallArgs :
     \A i \in 1..Len(args) :
       args[i].type \in {pkl_ast_make_integral_type(8, 0), pkl_ast_make_string_type}}

RerunNodes ==
  {[Node("isa") EXCEPT !.operands = <<t, of>>] :
     t \in {pkl_ast_make_integral_type(32, 1), AnyType},
     of \in {pkl_ast_make_integral_type(32, 1), pkl_ast_make_string_type, AnyType}}
    \cup {[Node("cast") EXCEPT !.operands = <<t, to>>] :
            t \in {pkl_ast_make_integral_type(32, 1), pkl_ast_make_integral_type(8, 0)},
            to \in {pkl_ast_make_integral_type(32, 1), pkl_ast_make_string_type}}
    \cup {[Node("funcall") EXCEPT !.operands = <<FunctionType>>, !.fargs = fargs,
                                  !.rtype = pkl_ast_make_integral_type(32, 1),
                                  !.elems = args, !.parent = "exp_stmt"] :
            fargs \in RerunFormals, args \in RerunActuals}
    \cup {ExpNode("add", <<pkl_ast_make_integral_type(32, 1),
                           pkl_ast_make_integral_type(8, 0)>>)}

RerunInit ==
  /\ errors = 0
  /\ errors0 = 0
  /\ node = NoNode
  /\ outcome = "none"
  /\ restart = 0
  /\ diag = NoDiag
  /\ actuals = <<>>
  /\ entered = NoNode
  /\ prog \in SeqsUpTo(RerunNodes, MaxNodes)
  /\ pc = 0
  /\ ast = <<>>

\* The handler of the node n has run: it has left what it defines, or, having
\* read a node it had freed, anything, after which nothing of the run is
\* known.
VisitNode(n) ==
  LET r == pkl_phase_typify1(n)
  IN \/ Handled(n, r)
     \/ /\ "uaf" \in DOMAIN r
        /\ r.uaf
        /\ node' = n
        /\ entered' = n
        /\ outcome' = "undefined"
        /\ restart' = 0
        /\ diag' = NoDiag
        /\ actuals' = <<>>
        /\ errors0' = errors
        /\ errors' = errors

FirstRun ==
  /\ outcome # "undefined"
  /\ pc < Len(prog)
  /\ VisitNode(prog[pc + 1])
  /\ ast' = Append(ast, node')
  /\ pc' = pc + 1
  /\ UNCHANGED prog

SecondRun ==
  /\ outcome # "undefined"
  /\ pc >= Len(prog)
  /\ pc < 2 * Len(prog)
  /\ errors = 0
  /\ VisitNode(ast[pc - Len(prog) + 1])
  /\ pc' = pc + 1
  /\ UNCHANGED <<prog, ast>>

RerunNext ==
  \/ FirstRun
  \/ SecondRun

RerunSpec == RerunInit /\ [][RerunNext]_vars

\* The phase over a stream of function calls.
CallNext ==
  \/ Funcall
  \/ Advance

CallSpec == Init /\ [][CallNext]_vars

-----------------------------------------------------------------------------
(* Properties of the binary operators.                                     *)

RECURSIVE GCD(_, _)
GCD(a, b) == IF b = 0 THEN a ELSE GCD(b, a % b)

\* The node just handled is the binary expression OP with two operands.
IsBinary(ops) == node.code = "exp" /\ node.op \in ops /\ Len(node.operands) = 2

op1 == node.operands[1]
op2 == node.operands[2]

\* The integral type the promotion rule gives two integral types.
Promoted(a, b) ==
  pkl_ast_make_integral_type(IF a.size >= b.size THEN a.size ELSE b.size,
                             IF a.signed = 1 /\ b.signed = 1 THEN 1 ELSE 0)

\* C2: ADD of two offsets is given an offset type whose base is the promoted
\* base and whose unit is the common denominator of the units of the operands.
C2_AddOffsetsCommonUnit ==
  (IsBinary({"add"}) /\ op1.code = "offset" /\ op2.code = "offset")
    => /\ outcome = "done"
       /\ node.type = pkl_ast_make_offset_type(
                         Promoted(PKL_AST_TYPE_O_BASE_TYPE(op1),
                                  PKL_AST_TYPE_O_BASE_TYPE(op2)),
                         GCD(op1.unit, op2.unit))

\* C8: ADD, SUB, MUL, DIV, MOD, IOR, XOR and BAND of two integrals are accepted
\* and given the integral type of the widest operand, signed iff both are.
C8_IntegralPromotion ==
  (IsBinary({"add", "sub", "mul", "div", "mod", "ior", "xor", "band"})
   /\ op1.code = "integral" /\ op2.code = "integral")
    => /\ outcome = "done"
       /\ errors = errors0
       /\ node.type = Promoted(op1, op2)

C8_Witness ==
  /\ IsBinary({"add"})
  /\ op1 = pkl_ast_make_integral_type(32, 0)
  /\ op2 = pkl_ast_make_integral_type(8, 1)
  /\ node.type = pkl_ast_make_integral_type(32, 0)

\* C9: for ADD, MUL, IOR, XOR and BAND on integral, string and offset operands,
\* the expression with its operands swapped is accepted iff the expression
\* is, and is given a structurally equal type.
C9_Commutative ==
  (IsBinary({"add", "mul", "ior", "xor", "band"})
   /\ op1.code \in {"integral", "string", "offset"}
   /\ op2.code \in {"integral", "string", "offset"})
    => LET swapped == ExpHandler(node.op, op2, op1)
       IN /\ (outcome = "error") <=> (swapped.outcome = "error")
          /\ outcome # "error" => pkl_ast_type_equal(node.type, swapped.type)

C9_Witness ==
  /\ IsBinary({"mul"})
  /\ op1.code = "integral" /\ op2.code = "offset"
  /\ op1.size > op2.size
  /\ outcome = "done"
  /\ node.type.code = "offset"

\* C10: a::b is accepted iff both operands are integral and their widths sum
\* to 64 at most; its type is then integral, as wide as the sum and signed as
\* a is; a rejected one adds exactly one error.
C10_BitConcat ==
  IsBinary({"bconc"})
    => LET accepted == /\ op1.code = "integral" /\ op2.code = "integral"
                       /\ op1.size + op2.size <= 64
       IN IF accepted
          THEN /\ outcome = "done"
               /\ errors = errors0
               /\ node.type = pkl_ast_make_integral_type(op1.size + op2.size,
                                                          op1.signed)
          ELSE /\ outcome = "error"
               /\ errors = errors0 + 1
               /\ node.type = NoType

C10_Witness ==
  /\ IsBinary({"bconc"})
  /\ op1.code = "integral" /\ op2.code = "integral"
  /\ op1.size = 32 /\ op2.size = 32 /\ op1.signed # op2.signed
  /\ node.type.size = 64

C12_MulOffsetByIntegral ==
  (IsBinary({"mul"}) /\ (op1.code = "offset" \/ op2.code = "offset"))
    => LET o == IF op1.code = "offset" THEN op1 ELSE op2
           i == IF op1.code = "offset" THEN op2 ELSE op1
       IN IF i.code = "integral"
          THEN /\ outcome = "done"
               /\ errors = errors0
               /\ node.type = pkl_ast_make_offset_type(
                                 Promoted(PKL_AST_TYPE_O_BASE_TYPE(o), i), o.unit)
          ELSE /\ outcome = "error"
               /\ errors = errors0 + 1

C12_Witness ==
  /\ IsBinary({"mul"})
  /\ op1.code = "integral" /\ op2.code = "offset"
  /\ op2.unit = 16 /\ op1.size > op2.size /\ op1.signed # op2.signed
  /\ node.type.code = "offset" /\ node.type.unit = 16

\* C13: DIV of two offsets is given the integral type that is the promotion
\* of the two base types.
C13_DivOffsetsIntegral ==
  (IsBinary({"div"}) /\ op1.code = "offset" /\ op2.code = "offset")
    => /\ outcome = "done"
       /\ errors = errors0
       /\ node.type = Promoted(PKL_AST_TYPE_O_BASE_TYPE(op1),
                               PKL_AST_TYPE_O_BASE_TYPE(op2))

C13_Witness ==
  /\ IsBinary({"div"})
  /\ op1.code = "offset" /\ op2.code = "offset"
  /\ op1.size < op2.size /\ op1.signed # op2.signed
  /\ node.type.code = "integral"

\* C14: MOD of two offsets is given an offset type whose base is the base of
\* the first operand, not promoted, and whose unit is the unit of the second.
C14_ModOffsets ==
  (IsBinary({"mod"}) /\ op1.code = "offset" /\ op2.code = "offset")
    => /\ outcome = "done"
       /\ errors = errors0
       /\ node.type = pkl_ast_make_offset_type(PKL_AST_TYPE_O_BASE_TYPE(op1),
                                               op2.unit)

C14_Witness ==
  /\ IsBinary({"mod"})
  /\ op1.code = "offset" /\ op2.code = "offset"
  /\ op1.size < op2.size /\ op1.signed = 1 /\ op2.signed = 0
  /\ op1.unit # op2.unit
  /\ node.type.code = "offset" /\ node.type.size = op1.size

\* C15: SL and SR of two integrals are given the size and the sign of the
\* first operand; a shift whose operands are not both integral is rejected.
C15_ShiftKeepsFirstOperand ==
  IsBinary({"sl", "sr"})
    => IF op1.code = "integral" /\ op2.code = "integral"
       THEN /\ outcome = "done"
            /\ errors = errors0
            /\ node.type = pkl_ast_make_integral_type(op1.size, op1.signed)
       ELSE /\ outcome = "error"
            /\ errors = errors0 + 1
            /\ node.type = NoType

C15_Witness ==
  /\ IsBinary({"sl"})
  /\ op1.code = "integral" /\ op2.code = "integral"
  /\ op1.size < op2.size /\ op1.signed = 1 /\ op2.signed = 0
  /\ node.type = op1

-----------------------------------------------------------------------------
(* Properties of ISA and of casts.                                         *)

\* C16: an isa whose type operand is any is replaced by the literal 1; else,
\* when the type of its expression is not any, it is replaced by the literal
\* 1 if the two types are equal and by the literal 0 if they are not; else
\* it is kept.  The node left has the type int<32>, and every replacement
\* sets the restart flag.
C16_IsaSimplification ==
  entered.code = "isa"
    => LET isa_exp_type == entered.operands[1]
           isa_type == entered.operands[2]
       IN /\ outcome = "done"
          /\ errors = errors0
          /\ node.type = pkl_ast_make_integral_type(32, 1)
          /\ IF isa_type.code = "any"
             THEN node.code = "integer" /\ node.value = 1 /\ restart = 1
             ELSE IF isa_exp_type.code # "any"
             THEN /\ node.code = "integer"
                  /\ node.value = (IF isa_type = isa_exp_type THEN 1 ELSE 0)
                  /\ restart = 1
             ELSE node.code = "isa" /\ node.operands = entered.operands

C16_Witness ==
  /\ entered.code = "isa"
  /\ entered.operands[1].code = "integral"
  /\ entered.operands[2].code = "integral"
  /\ entered.operands[1] # entered.operands[2]
  /\ node.code = "integer" /\ node.value = 0 /\ restart = 1

\* C17: a cast is rejected iff its target is any or a function type, or its
\* operand is of a function type, or its target is string and its operand
\* is not uint<8>; an accepted cast takes its target as type, a rejected one
\* adds exactly one error.
C17_CastRejection ==
  entered.code = "cast"
    => LET exp_type == entered.operands[1]
           type == entered.operands[2]
           rejected == \/ type.code = "any"
                       \/ type.code = "function"
                       \/ exp_type.code = "function"
                       \/ /\ type.code = "string"
                          /\ exp_type # pkl_ast_make_integral_type(8, 0)
       IN IF rejected
          THEN outcome = "error" /\ errors = errors0 + 1
          ELSE outcome = "done" /\ errors = errors0 /\ node.type = type

C17_Witness ==
  /\ entered.code = "cast"
  /\ entered.operands[2].code = "string"
  /\ entered.operands[1] = pkl_ast_make_integral_type(8, 1)
  /\ outcome = "error" /\ errors = errors0 + 1

-----------------------------------------------------------------------------
(* Properties of attributes and of SIZEOF.                                 *)

\* The kinds of operand an attribute is defined for, and the type of the
\* attribute expression.
AttrKinds(attr) ==
  CASE attr = "size" -> {"integral", "string", "array", "struct", "offset"}
    [] attr = "signed" -> {"integral"}
    [] attr = "magnitude" -> {"offset"}
    [] attr = "unit" -> {"offset"}
    [] attr = "length" -> {"array", "struct", "string"}
    [] attr = "alignment" -> {"struct"}
    [] attr = "offset" -> {"array", "struct"}
    [] attr = "mapped" -> {t.code : t \in Types}

AttrType(attr) ==
  CASE attr \in {"size", "offset"} ->
         pkl_ast_make_offset_type(pkl_ast_make_integral_type(64, 0), 1)
    [] attr \in {"signed", "mapped"} -> pkl_ast_make_integral_type(32, 1)
    [] attr \in {"magnitude", "unit", "length", "alignment"} ->
         pkl_ast_make_integral_type(64, 0)

\* C18: an attribute expression is accepted iff the kind of the type of its
\* operand is one the attribute is defined for, and is then given the type
\* of the attribute; else it adds one error and stays untyped.
C18_AttributeTable ==
  (entered.code = "exp" /\ entered.op = "attr" /\ entered.attr # "none")
    => IF entered.operands[1].code \in AttrKinds(entered.attr)
       THEN /\ outcome = "done"
            /\ errors = errors0
            /\ node.type = AttrType(entered.attr)
       ELSE /\ outcome = "error"
            /\ errors = errors0 + 1
            /\ node.type = NoType

C18_Witness ==
  /\ entered.code = "exp" /\ entered.op = "attr"
  /\ entered.attr = "length"
  /\ entered.operands[1].code = "string"
  /\ node.type = pkl_ast_make_integral_type(64, 0)

\* C19: a sizeof, whatever its operand, and an accepted 'size attribute
\* expression are given the same type: an offset of base uint<64> and unit 1.
C19_SizeofAndSizeAgree ==
  LET bits == pkl_ast_make_offset_type(pkl_ast_make_integral_type(64, 0), 1)
  IN /\ (entered.code = "exp" /\ entered.op = "sizeof")
          => outcome = "done" /\ pkl_ast_type_equal(node.type, bits)
     /\ (entered.code = "exp" /\ entered.op = "attr" /\ entered.attr = "size"
           /\ outcome = "done")
          => pkl_ast_type_equal(node.type, bits)

C19_Witness ==
  /\ entered.code = "exp" /\ entered.op = "sizeof"
  /\ entered.operands[1].code = "struct"
  /\ node.type.code = "offset" /\ node.type.unit = 1 /\ node.type.size = 64

-----------------------------------------------------------------------------
(* Properties of the statements.                                           *)

\* C3: a return statement with an expression is rejected when the declared
\* return type is void, and is else accepted iff the type of the expression
\* equals the declared type, or the declared type is any, or both are
\* integral, or both are offsets.
C3_ReturnMatchesDeclaredType ==
  (node.code = "return_stmt" /\ Len(node.operands) = 1)
    => LET returned == node.operands[1]
           expected == node.rtype
       IN IF expected.code = "void"
          THEN outcome = "error"
          ELSE (outcome = "done")
                 <=> \/ returned = expected
                     \/ expected.code = "any"
                     \/ returned.code = "integral" /\ expected.code = "integral"
                     \/ returned.code = "offset" /\ expected.code = "offset"

\* C6: a handler that ends with the error outcome has incremented the error
\* counter of the payload while it ran.
C6_ErrorOutcomeCounts ==
  outcome = "error" => errors > errors0

\* C23: an assignment is accepted, with no error, iff the type of the
\* l-value is any, or the types of the two sides are equal, or both are
\* integral, or both are offsets; any other assignment, that of another
\* type to an l-value of function type included, ends in error with exactly
\* one error added; an assignment to an l-value of function type of a value
\* of the same type is accepted.
C23_AssignmentTypes ==
  node.code = "ass_stmt"
    => LET l == node.operands[1]
           r == node.operands[2]
           ok == \/ l.code = "any"
                 \/ l = r
                 \/ l.code = "integral" /\ r.code = "integral"
                 \/ l.code = "offset" /\ r.code = "offset"
       IN /\ ok => outcome = "done" /\ errors = errors0
          /\ ~ok => outcome = "error" /\ errors = errors0 + 1
          /\ (l.code = "function" /\ l = r) => outcome = "done"

C23_Witness ==
  /\ node.code = "ass_stmt"
  /\ node.operands[1].code = "function"
  /\ node.operands[2] = node.operands[1]
  /\ outcome = "done"
  /\ errors = errors0

\* The children a loop has, in the order container, iterator, condition,
\* body.
LoopChildren ==
  (IF node.operands[1] # <<>> THEN <<"container">> ELSE <<>>)
    \o (IF node.attr = "iterator" THEN <<"iterator">> ELSE <<>>)
    \o (IF node.operands[2] # <<>> THEN <<"condition">> ELSE <<>>)
    \o <<"body">>

IsPrefix(s, t) == Len(s) <= Len(t) /\ \A i \in 1..Len(s) : s[i] = t[i]

\* The handler of the loop has left.
LoopLeft == node.code = "loop_stmt" /\ Len(node.operands) = 3 /\ pc = 0

\* C24: at every point of the handler of a loop the children typified so
\* far are the first of container, iterator, condition, body, in this order
\* and each once; the initial of the iterator has the element type of an
\* array container and uint<8> for a string, and a container of another
\* kind ends the handler in error; the body is typified only after a
\* condition of type int<32>, and a condition of another type ends the
\* handler in error; the handler leaves with break or with error, and with
\* break only after it has typified every child.
C24_LoopTypingOrder ==
  (node.code = "loop_stmt" /\ Len(node.operands) = 3)
    => LET container == node.operands[1]
           condition == node.operands[2]
           typified(c) == \E i \in 1..Len(ast) : ast[i] = c
       IN /\ IsPrefix(ast, LoopChildren)
          /\ typified("iterator")
               => /\ container[1].type.code \in {"array", "string"}
                  /\ container[1].type.code = "array"
                       => node.type = pkl_ast_make_integral_type(container[1].type.size,
                                                                 container[1].type.signed)
                  /\ container[1].type.code = "string"
                       => node.type = pkl_ast_make_integral_type(8, 0)
          /\ (/\ pc = 0 /\ node.attr = "iterator" /\ typified("container")
              /\ container[1].type.code \notin {"array", "string"})
               => outcome = "error" /\ ~typified("condition") /\ ~typified("body")
          /\ (typified("body") /\ condition # <<>>)
               => condition[1].type = pkl_ast_make_integral_type(32, 1)
          /\ (/\ pc = 0 /\ typified("condition")
              /\ condition[1].type # pkl_ast_make_integral_type(32, 1))
               => /\ outcome = "error"
                  /\ (errors0 = 0 /\ condition[1].nerr = 0)
                       => /\ errors = errors0 + 1
                          /\ diag.msg = "expected boolean expression"
          /\ pc = 0 => outcome \in {"break", "error"}
          /\ outcome = "break" => ast = LoopChildren

C24_Witness ==
  /\ LoopLeft
  /\ outcome = "break"
  /\ ast = <<"container", "iterator", "condition", "body">>
  /\ node.operands[1][1].type.code = "array"
  /\ node.type = pkl_ast_make_integral_type(32, 1)

\* The container, the condition and the body of the loop are well typed.
LoopWellTyped ==
  /\ node.operands[1] # <<>>
       => /\ node.operands[1][1].nerr = 0
          /\ node.attr = "iterator"
               => node.operands[1][1].type.code \in {"array", "string"}
  /\ node.operands[2] # <<>>
       => /\ node.operands[2][1].nerr = 0
          /\ node.operands[2][1].type = pkl_ast_make_integral_type(32, 1)
  /\ node.operands[3][1].nerr = 0

\* C28: a loop whose container, condition and body are well typed does not
\* end with the error outcome and has its body typified, whatever the number
\* of errors counted before the loop.
C28_LoopIndependentOfEarlierErrors ==
  (LoopLeft /\ LoopWellTyped)
    => /\ outcome # "error"
       /\ \E i \in 1..Len(ast) : ast[i] = "body"

\* The width of the integral type t, or of the base type of the offset
\* type t, is between 1 and 64.
WidthInRange(t) == t.code \in {"integral", "offset"} => t.size \in 1..64

\* The types the operands of an expression came with have widths in range.
OperandWidthsInRange ==
  node.code = "exp" => \A i \in 1..Len(node.operands) : WidthInRange(node.operands[i])

\* C26: an integral type written in the program is accepted iff its width
\* is between 1 and 64, and is rejected with one error otherwise; and the
\* type a handler gives to a node it accepts, from operands whose widths
\* are between 1 and 64, is an integral type, or an offset type with a base
\* type, of a width between 1 and 64, or a type of another kind.
C26_IntegralWidths ==
  /\ node.code = "type"
       => IF node.type.size \in 1..64
          THEN outcome = "done" /\ errors = errors0
          ELSE outcome = "error" /\ errors = errors0 + 1
  /\ (/\ node \notin {NoNode}
      /\ node.code # "type"
      /\ outcome \in {"done", "break"}
      /\ OperandWidthsInRange)
       => WidthInRange(node.type)

C26_Witness ==
  /\ node.code = "exp" /\ node.op = "bconc"
  /\ outcome = "done"
  /\ node.operands[1].size = 32 /\ node.operands[2].size = 32
  /\ node.type = pkl_ast_make_integral_type(64, node.operands[1].signed)

-----------------------------------------------------------------------------
(* Properties of the literals.                                             *)

\* C7: the struct type made for a struct literal has one field per element
\* of the literal, in the order of the elements, with the name and the type
\* of that element.
C7_StructTypeMirrorsLiteral ==
  node.code = "struct"
    => /\ outcome = "done"
       /\ node.type.code = "struct"
       /\ Len(node.type.elems) = Len(node.elems)
       /\ \A i \in 1..Len(node.elems) :
            /\ node.type.elems[i].name = node.elems[i].name
            /\ node.type.elems[i].type = node.elems[i].type


-----------------------------------------------------------------------------
(* Function calls.                                                         *)

IsCall == node.code = "funcall" /\ outcome \in {"done", "error"}

\* Every actual has a name, and the formal of that name accepts its type.
NamedActualsMatch ==
  /\ actuals # <<>>
  /\ \A i \in 1..Len(actuals) :
       /\ actuals[i].name # ""
       /\ \E j \in 1..Len(node.fargs) :
            /\ node.fargs[j].name = actuals[i].name
            /\ node.fargs[j].vararg = 0
            /\ \/ pkl_ast_type_equal(node.fargs[j].type, actuals[i].type)
               \/ Promotable(node.fargs[j].type, actuals[i].type)

\* Some optional formal has no actual, and every required formal has one.
OmitsOptionalOnly ==
  /\ \E j \in 1..Len(node.fargs) :
       node.fargs[j].optional = 1 /\ FindActual(actuals, node.fargs[j].name) = 0
  /\ \A j \in 1..Len(node.fargs) :
       FindActual(actuals, node.fargs[j].name) = 0
         => node.fargs[j].optional = 1 \/ node.fargs[j].vararg = 1

\* C1: a call with named arguments that omits an optional formal is accepted
\* with no error whenever the type of every supplied actual matches the
\* formal of the same name.
C1_NamedCallOmittingOptionalAccepted ==
  (/\ IsCall
   /\ node.operands[1].code = "function"
   /\ node.rtype.code # "void"
   /\ NamedActualsMatch
   /\ OmitsOptionalOnly)
    => outcome = "done" /\ errors = errors0

\* The contexts that expect a value of the call.
ExpressionContexts ==
  {"exp", "cond_exp", "array_initializer", "indexer", "trimmer", "struct_elem",
   "struct_ref", "offset", "cast", "isa", "map", "funcall", "funcall_arg", "decl"}

\* C4: a call of a void function whose arguments are in order is rejected
\* with "function doesn't return a value" exactly when its parent is an
\* expression-valued context.
C4_VoidCallRejectedInExpression ==
  (/\ IsCall
   /\ node.operands[1].code = "function"
   /\ node.rtype.code = "void"
   /\ diag.msg \in {"", "function doesn't return a value"})
    => (node.parent \in ExpressionContexts
          <=> outcome = "error" /\ diag.msg = "function doesn't return a value")


\* The formals ahead of the first optional or vararg formal of the callee.
LeadingMandatory ==
  {i \in 1..Len(node.fargs) :
     \A j \in 1..i : node.fargs[j].optional = 0 /\ node.fargs[j].vararg = 0}

\* C20: a call whose callee is not a function is rejected; a call with fewer
\* actuals than formals ahead of the first optional or vararg formal is
\* rejected for too few arguments; any other call is rejected for neither
\* reason, and is rejected for too many arguments iff it has more actuals
\* than the function has formals and no formal is a vararg.
C20_FuncallArity ==
  IsCall
    => IF node.operands[1].code # "function"
       THEN /\ outcome = "error"
            /\ errors = errors0 + 1
            /\ diag.msg = "variable is not a function"
       ELSE IF Len(actuals) < Cardinality(LeadingMandatory)
       THEN /\ outcome = "error"
            /\ errors = errors0 + 1
            /\ diag.msg = "too few arguments passed to function"
       ELSE /\ diag.msg \notin {"variable is not a function",
                              "too few arguments passed to function"}
            /\ (/\ outcome = "error"
                /\ errors = errors0 + 1
                /\ diag.msg = "too many arguments passed to function")
                 <=> (/\ Len(actuals) > Len(node.fargs)
                      /\ \A j \in 1..Len(node.fargs) : node.fargs[j].vararg = 0)

C20_Witness ==
  /\ IsCall
  /\ node.operands[1].code = "function"
  /\ Len(node.fargs) = 1 /\ node.fargs[1].vararg = 1
  /\ Len(actuals) = 2 /\ actuals[1].name = ""
  /\ outcome = "done"

\* The call has actuals and each has a name.
IsNamedCall ==
  /\ IsCall
  /\ node.operands[1].code = "function"
  /\ actuals # <<>>
  /\ \A i \in 1..Len(actuals) : actuals[i].name # ""

\* The call is rejected for its number of actuals, ahead of the names.
ArityDiag ==
  diag.msg \in {"too few arguments passed to function",
                "too many arguments passed to function"}

\* Some actual has a name no formal has.
UnknownActualName ==
  \E i \in 1..Len(actuals) :
    \A j \in 1..Len(node.fargs) : node.fargs[j].name # actuals[i].name

\* Some formal that is neither optional nor vararg has no actual of its name.
MissingRequired ==
  \E j \in 1..Len(node.fargs) :
    /\ node.fargs[j].optional = 0 /\ node.fargs[j].vararg = 0
    /\ \A i \in 1..Len(actuals) : actuals[i].name # node.fargs[j].name

\* The formals of the function type have no names.
UnnamedFormals ==
  /\ node.fargs # <<>>
  /\ \A j \in 1..Len(node.fargs) : node.fargs[j].name = ""

\* The position of the formal called name.
FormalPos(name) == CHOOSE j \in 1..Len(node.fargs) : node.fargs[j].name = name

\* The arguments of the node are the actuals of the call, each once, in the
\* order of their formals.
InstalledInFormalOrder ==
  /\ Len(node.elems) = Len(actuals)
  /\ \A i \in 1..Len(actuals) :
       \E j \in 1..Len(node.elems) :
         /\ node.elems[j].name = actuals[i].name
         /\ node.elems[j].type = actuals[i].type
  /\ \A j, k \in 1..Len(node.elems) :
       j < k => FormalPos(node.elems[j].name) < FormalPos(node.elems[k].name)

PairAccepted(i) ==
  \/ pkl_ast_type_equal(node.fargs[i].type, node.elems[i].type)
  \/ node.fargs[i].type.code = "any"
  \/ node.fargs[i].type.code = "integral" /\ node.elems[i].type.code = "integral"
  \/ node.fargs[i].type.code = "offset" /\ node.elems[i].type.code = "offset"

\* The positions at which a formal that is not a vararg meets an actual.
CheckedPairs ==
  {i \in 1..Len(node.fargs) : i <= Len(node.elems) /\ node.fargs[i].vararg = 0}

\* The call got as far as the comparison of its arguments with the formals.
ReachedTypeCheck ==
  /\ IsCall
  /\ node.operands[1].code = "function"
  /\ diag.msg \in {"", "function argument %d has the wrong type",
                   "function doesn't return a value"}

\* C22: a call is rejected for the type of an argument exactly when some
\* formal that is not a vararg is paired with an actual whose type is not
\* equal to the type of the formal, while the formal is not any and the two
\* are not both integral nor both offsets; so an actual of type any for a
\* formal of another type is rejected, and the actuals at and after a
\* vararg formal pass with any type.
C22_ArgumentTypes ==
  ReachedTypeCheck
    => /\ diag.msg = "function argument %d has the wrong type"
            <=> \E i \in CheckedPairs : ~PairAccepted(i)
       /\ diag.msg = "function argument %d has the wrong type"
            => outcome = "error" /\ errors = errors0 + 1
       /\ (\E i \in CheckedPairs :
             node.elems[i].type.code = "any" /\ node.fargs[i].type.code # "any")
            => diag.msg = "function argument %d has the wrong type"

C22_Witness ==
  /\ ReachedTypeCheck
  /\ outcome = "done"
  /\ Len(node.fargs) = 2 /\ Len(node.elems) = 2
  /\ node.fargs[1].type.code = "offset" /\ node.elems[1].type.code = "offset"
  /\ ~pkl_ast_type_equal(node.fargs[1].type, node.elems[1].type)
  /\ node.fargs[2].vararg = 1
  /\ node.elems[2].type.code = "any" /\ node.fargs[2].type.code # "any"

\* C29: when a call is rejected for the type of an argument, the number in
\* "function argument %d has the wrong type" is the position, counted from
\* one, of the first actual of the argument list of the node whose type its
\* formal does not accept.
C29_ReportedArgumentNumber ==
  (/\ IsCall
   /\ node.operands[1].code = "function"
   /\ diag.msg = "function argument %d has the wrong type")
    => /\ diag.argno \in CheckedPairs
       /\ ~PairAccepted(diag.argno)
       /\ \A i \in CheckedPairs : i < diag.argno => PairAccepted(i)

\* The call had named actuals and got as far as the disposal of the old list.
OldListDisposed ==
  /\ node.code = "funcall"
  /\ node.operands[1].code = "function"
  /\ actuals # <<>>
  /\ \A i \in 1..Len(actuals) : actuals[i].name # ""
  /\ outcome = "undefined" \/ ReachedTypeCheck

\* C30: the disposal of the old list of a named call reads no field of a
\* node, its chain link included, after the node has been freed, so the
\* handler goes on with the list it has built and ends as it defines.
C30_NoReadAfterFree ==
  OldListDisposed => ~ReadsFreedNode(actuals) /\ outcome # "undefined"

-----------------------------------------------------------------------------
(* Properties of the second phase.                                         *)

\* The type node just handled is an array type with a number of elements
\* under an argument of a function type.
SizedArrayArgument ==
  /\ node.type.code = "array"
  /\ node.nelem # <<>>
  /\ node.parent = "func_type_arg"

\* C27: in the second phase an array type with a number of elements whose
\* parent is an argument of a function type ends in error with one error
\* added; an array type without number of elements, and one with a number
\* of elements under any other parent or under none, ends with no error;
\* and in every case the flag of completeness of the node has been written.
C27_SizedArrayInFunctionArgument ==
  (node.code = "type" /\ node.type.code = "array")
    => /\ entered.complete = "unknown"
       /\ node.complete \in {"yes", "no"}
       /\ node.complete = pkl_ast_type_is_complete(entered)
       /\ IF SizedArrayArgument
          THEN /\ outcome = "error"
               /\ errors = errors0 + 1
               /\ diag.msg = "sized array types not allowed in this context"
          ELSE outcome = "done" /\ errors = errors0

C27_Witness ==
  /\ node.code = "type"
  /\ SizedArrayArgument
  /\ outcome = "error"
  /\ entered.complete = "unknown"
  /\ node.complete = "yes"

-----------------------------------------------------------------------------
(* Properties of a whole phase.                                            *)

\* The names of the arguments of a call, in their order.
ArgumentOrder(n) == [i \in 1..Len(n.elems) |-> n.elems[i].name]

\* The second run has just handled a node the first run left.
InSecondRun == pc > Len(prog) /\ outcome # "undefined"

\* C25: a second run of the phase over the nodes of a first run without
\* errors counts no error, replaces no node by another, leaves the order of
\* the arguments of every call, and gives every node the type it had.
C25_SecondRunChangesNothing ==
  InSecondRun
    => /\ outcome = "done"
       /\ errors = 0
       /\ node.code = entered.code
       /\ ArgumentOrder(node) = ArgumentOrder(entered)
       /\ pkl_ast_type_equal(node.type, entered.type)
       /\ entered = ast[pc - Len(prog)]

C25_Witness ==
  /\ InSecondRun
  /\ Len(prog) = 2 /\ pc = 4
  /\ prog[1].code = "isa" /\ ast[1].code = "integer"
  /\ prog[2].code = "funcall"
  /\ ArgumentOrder(prog[2]) = <<"b", "a">>
  /\ ArgumentOrder(ast[2]) = <<"a", "b">>
  /\ ArgumentOrder(node) = <<"a", "b">>
  /\ errors = 0

ExpressionCodes ==
  {"exp", "cond_exp", "cast", "isa", "funcall", "indexer", "trimmer", "struct_ref",
   "map", "scons", "array", "struct", "offset", "var"}

\* C5: when the phase has visited the whole program and the error counter
\* is zero, every expression node has a type.
C5_AcceptedProgramIsTyped ==
  (pc = Len(prog) /\ errors = 0)
    => \A i \in 1..Len(ast) :
         ast[i].code \in ExpressionCodes => ast[i].type # NoType

====
